---- MODULE Spec2Model ----
(***************************************************************************)
(* Resilience execution layer of goprobe (probe/retry.go): the             *)
(* CircuitBreaker and the RetryExecutor that composes it.                  *)
(*                                                                         *)
(* Callers are goroutines sharing one breaker.  Each step of a caller is   *)
(* one atomic section of the code: the admission check under the breaker   *)
(* mutex, the context check at the head of the retry loop, the return of   *)
(* the operation followed by its classification, the end of a backoff      *)
(* wait, and the recording of the result under the breaker mutex.  Time    *)
(* is a discrete clock read by time.Now().                                 *)
(***************************************************************************)
EXTENDS Integers, Sequences, FiniteSets, TLC

\* ---------------------------------------------------------------- bounds
MaxTime == 2
MaxCalls == 4
MaxThreshold == 2
MaxResetTimeout == 1
MaxHalfOpen == 1
MaxRetriesBound == 1
JitterSteps == 2
MaxAttempt == 5
MaxChain == 2

\* The goroutines that share the executor and its breaker.
Callers == {"g1", "g2"}

\* ---------------------------------------------------------------- errors
\* probe/errors.go: the five error kinds of a ProbeError.
ErrorTypes == {"network", "parsing", "validation", "timeout", "auth"}

\* A nil error.
NoError == [Type |-> "nil", Message |-> ""]

\* A *ProbeError of the given kind, as the operation returns it.
ProbeError(t) == [Type |-> t, Message |-> "operation failed"]

\* An error that is not a *ProbeError (errors.As finds none).
PlainError == [Type |-> "unclassified", Message |-> "operation failed"]

\* ctx.Err() of a done context.
CtxError == [Type |-> "context", Message |-> "context canceled"]

\* fmt.Errorf("...: %w", e): an error that is no *ProbeError and unwraps
\* to e.
Wrap(e) == [Type |-> "unclassified", Message |-> "wrapped", Cause |-> e]

\* A *ProbeError of kind t whose Cause is e.
WithCause(t, e) == [Type |-> t, Message |-> "operation failed", Cause |-> e]

\* The errors with at most d layers: a ProbeError or a plain error with a
\* nil cause, or a wrapper or a ProbeError around a shorter chain.
RECURSIVE Chains(_)
Chains(d) ==
    IF d <= 1
    THEN {ProbeError(t) : t \in ErrorTypes} \cup {PlainError}
    ELSE LET inner == Chains(d - 1)
         IN  inner \cup {Wrap(e) : e \in inner}
                   \cup {WithCause(t, e) : t \in ErrorTypes, e \in inner}

\* The error CircuitBreaker.Execute returns for a rejected call.
BreakerOpenError == [Type |-> "network", Message |-> "circuit breaker is open"]

\* The results the caller-supplied operation may return.
OpResults == {NoError, ProbeError("network"), ProbeError("timeout"),
              ProbeError("auth"), PlainError}

\* ---------------------------------------------------------------- state
VARIABLES
    config,     \* RetryConfig, CircuitBreakerConfig and the entry point in use
    cb,         \* the CircuitBreaker: state, failures, requests, lastFailTime
    now,        \* the clock time.Now() reads
    started,    \* number of Execute calls started so far
    pc,         \* where each caller is
    ctxDone,    \* whether the caller's context is done
    attempt,    \* loop variable of executeWithRetry
    lastErr,    \* lastErr of executeWithRetry
    wakeAt,     \* when the pending time.After(delay) fires
    ret,        \* the value Execute returned to the caller
    admit,      \* what the admission check decided for the current call
    opResult,   \* what the most recent invocation of the operation returned
    invoked,    \* invocations of the operation in the current call
    waited,     \* backoff waits begun in the current call
    onlyRetryable, \* every invocation of the current call failed retryably
    seen,       \* what the most recent GetState returned
    delay,      \* the most recent calculateDelay call: its attempt and result
    out         \* the most recent call of a helper: function, argument, result

vars == <<config, cb, now, started, pc, ctxDone, attempt, lastErr, wakeAt,
          ret, admit, opResult, invoked, waited, onlyRetryable, seen, delay,
          out>>

\* ---------------------------------------------------------------- configuration
\* BackoffMultiplier is a float64; the model counts it in halves, so that
\* 1.0, 1.5 and 2.0 are 2, 3 and 4.
MultiplierUnit == 2

\* A nil *RetryConfig or *CircuitBreakerConfig.
Nil == [nil |-> TRUE]

\* DefaultRetryConfig with five retries.
DefaultRetryConfigFiveRetries ==
    [MaxRetries |-> 5,
     InitialDelay |-> 100,
     MaxDelay |-> 5000,
     BackoffMultiplier |-> 2 * MultiplierUnit,
     Jitter |-> TRUE,
     RetryableErrors |-> {"network", "timeout"}]

\* DefaultRetryConfig(), durations in milliseconds.
DefaultRetryConfig ==
    [MaxRetries |-> 3,
     InitialDelay |-> 100,
     MaxDelay |-> 5000,
     BackoffMultiplier |-> 2 * MultiplierUnit,
     Jitter |-> TRUE,
     RetryableErrors |-> {"network", "timeout"}]

\* DefaultCircuitBreakerConfig(), durations in milliseconds.
DefaultCircuitBreakerConfig ==
    [Enabled |-> TRUE,
     FailureThreshold |-> 5,
     ResetTimeout |-> 30000,
     HalfOpenMaxRequests |-> 3]

\* The retry and breaker policies a behaviour may run under; durations
\* are in clock ticks.
BreakerConfigs ==
    [Enabled : BOOLEAN,
     FailureThreshold : 1..MaxThreshold,
     ResetTimeout : {MaxResetTimeout},
     HalfOpenMaxRequests : {MaxHalfOpen}]

RetryConfigs ==
    [MaxRetries : 0..MaxRetriesBound,
     InitialDelay : {1},
     MaxDelay : {2},
     BackoffMultiplier : {2 * MultiplierUnit},
     Jitter : {TRUE},
     RetryableErrors : {{"network", "timeout"}}]

\* The retryable sets an executor without breaker is also run under: none,
\* the default, and every kind.
RetryableSets == {{}, {"network", "timeout"}, ErrorTypes}

\* NewCircuitBreaker(config) as a standalone breaker: the policy it runs
\* under (the default one for a nil config) and the argument it was built
\* from.  The retry fields are unused on this entry point.
StandaloneBreaker(bc) ==
    (IF bc = Nil THEN DefaultCircuitBreakerConfig ELSE bc)
        @@ (CHOOSE rc \in RetryConfigs : TRUE)
        @@ [via |-> "breaker", hasBreaker |-> TRUE, cbConfig |-> bc]

\* NewRetryExecutor building a default breaker for a nil breaker config.
NewRetryExecutorDefaultBreaker(rc, bc) ==
    (IF rc = Nil THEN DefaultRetryConfig ELSE rc)
        @@ (IF bc = Nil THEN DefaultCircuitBreakerConfig ELSE bc)
        @@ [via |-> "executor", hasBreaker |-> TRUE,
            retryConfig |-> rc, cbConfig |-> bc]

\* NewRetryExecutor(retryConfig, cbConfig): the retry policy (the default
\* one for nil), a breaker only for a non-nil cbConfig, and the arguments
\* it was built from.
NewRetryExecutor(rc, bc) ==
    (IF rc = Nil THEN DefaultRetryConfig ELSE rc)
        @@ (IF bc = Nil
            THEN [hasBreaker |-> FALSE]
            ELSE bc @@ [hasBreaker |-> TRUE])
        @@ [via |-> "executor", retryConfig |-> rc, cbConfig |-> bc]

\* A standalone breaker under every breaker policy; an executor without
\* breaker under every retry policy; an executor with an enabled breaker
\* under every pair of policies.
Configs ==
    {StandaloneBreaker(bc) : bc \in BreakerConfigs}
        \cup {NewRetryExecutor([rc EXCEPT !.RetryableErrors = rs], Nil) :
            rc \in RetryConfigs, rs \in RetryableSets}
        \cup {NewRetryExecutor(rc, bc) :
            rc \in RetryConfigs, bc \in {b \in BreakerConfigs : b.Enabled}}

\* NewCircuitBreaker: a breaker starts Closed with zeroed counters.
NewCircuitBreaker ==
    [state |-> "Closed", failures |-> 0, requests |-> 0, lastFailTime |-> 0]

\* ---------------------------------------------------------------- CircuitBreaker
\* allowRequest with the timeout test weakened to "not less than".
allowRequestAtTimeout(b, cfg, t) ==
    CASE b.state = "Closed" -> [allow |-> TRUE, cb |-> b]
      [] b.state = "Open" ->
            IF t - b.lastFailTime >= cfg.ResetTimeout
            THEN [allow |-> TRUE,
                  cb |-> [b EXCEPT !.state = "HalfOpen", !.requests = 0]]
            ELSE [allow |-> FALSE, cb |-> b]
      [] b.state = "HalfOpen" ->
            [allow |-> b.requests < cfg.HalfOpenMaxRequests, cb |-> b]
      [] OTHER -> [allow |-> FALSE, cb |-> b]

\* allowRequest refreshing the failure timestamp when it rejects.
allowRequestRejectTouches(b, cfg, t) ==
    CASE b.state = "Closed" -> [allow |-> TRUE, cb |-> b]
      [] b.state = "Open" ->
            IF t - b.lastFailTime > cfg.ResetTimeout
            THEN [allow |-> TRUE,
                  cb |-> [b EXCEPT !.state = "HalfOpen", !.requests = 0]]
            ELSE [allow |-> FALSE, cb |-> [b EXCEPT !.lastFailTime = t]]
      [] b.state = "HalfOpen" ->
            [allow |-> b.requests < cfg.HalfOpenMaxRequests, cb |-> b]
      [] OTHER -> [allow |-> FALSE, cb |-> b]

\* allowRequest counting the requests it admits in HalfOpen.
allowRequestCountsAdmitted(b, cfg, t) ==
    CASE b.state = "Closed" -> [allow |-> TRUE, cb |-> b]
      [] b.state = "Open" ->
            IF t - b.lastFailTime > cfg.ResetTimeout
            THEN [allow |-> TRUE,
                  cb |-> [b EXCEPT !.state = "HalfOpen", !.requests = 1]]
            ELSE [allow |-> FALSE, cb |-> b]
      [] b.state = "HalfOpen" ->
            IF b.requests < cfg.HalfOpenMaxRequests
            THEN [allow |-> TRUE, cb |-> [b EXCEPT !.requests = @ + 1]]
            ELSE [allow |-> FALSE, cb |-> b]
      [] OTHER -> [allow |-> FALSE, cb |-> b]

\* allowRequest closing the circuit once the timeout has passed.
allowRequestReopensClosed(b, cfg, t) ==
    CASE b.state = "Closed" -> [allow |-> TRUE, cb |-> b]
      [] b.state = "Open" ->
            IF t - b.lastFailTime > cfg.ResetTimeout
            THEN [allow |-> TRUE,
                  cb |-> [b EXCEPT !.state = "Closed", !.requests = 0]]
            ELSE [allow |-> FALSE, cb |-> b]
      [] b.state = "HalfOpen" ->
            [allow |-> b.requests < cfg.HalfOpenMaxRequests, cb |-> b]
      [] OTHER -> [allow |-> FALSE, cb |-> b]

\* allowRequest never letting a probe through.
allowRequestNeverProbes(b, cfg, t) ==
    CASE b.state = "Closed" -> [allow |-> TRUE, cb |-> b]
      [] b.state = "Open" -> [allow |-> FALSE, cb |-> b]
      [] b.state = "HalfOpen" ->
            [allow |-> b.requests < cfg.HalfOpenMaxRequests, cb |-> b]
      [] OTHER -> [allow |-> FALSE, cb |-> b]

\* allowRequest: the admission decision and the breaker after it.
allowRequest(b, cfg, t) ==
    CASE b.state = "Closed" -> [allow |-> TRUE, cb |-> b]
      [] b.state = "Open" ->
            IF t - b.lastFailTime > cfg.ResetTimeout
            THEN [allow |-> TRUE,
                  cb |-> [b EXCEPT !.state = "HalfOpen", !.requests = 0]]
            ELSE [allow |-> FALSE, cb |-> b]
      [] b.state = "HalfOpen" ->
            [allow |-> b.requests < cfg.HalfOpenMaxRequests, cb |-> b]
      [] OTHER -> [allow |-> FALSE, cb |-> b]

\* recordResult opening only above the threshold.
recordResultAboveThreshold(b, cfg, err, t) ==
    LET b1 == IF b.state = "HalfOpen"
              THEN [b EXCEPT !.requests = @ + 1] ELSE b
    IN  IF err # NoError
        THEN LET b2 == [b1 EXCEPT !.failures = @ + 1, !.lastFailTime = t]
             IN  IF b2.state = "HalfOpen"
                 THEN [b2 EXCEPT !.state = "Open"]
                 ELSE IF b2.failures > cfg.FailureThreshold
                      THEN [b2 EXCEPT !.state = "Open"]
                      ELSE b2
        ELSE LET b2 == [b1 EXCEPT !.failures = 0]
             IN  IF b2.state = "HalfOpen"
                 THEN [b2 EXCEPT !.state = "Closed"]
                 ELSE b2

\* recordResult applying the threshold to half-open failures too.
recordResultThresholdOnly(b, cfg, err, t) ==
    LET b1 == IF b.state = "HalfOpen"
              THEN [b EXCEPT !.requests = @ + 1] ELSE b
    IN  IF err # NoError
        THEN LET b2 == [b1 EXCEPT !.failures = @ + 1, !.lastFailTime = t]
             IN  IF b2.failures >= cfg.FailureThreshold
                 THEN [b2 EXCEPT !.state = "Open"]
                 ELSE b2
        ELSE LET b2 == [b1 EXCEPT !.failures = 0]
             IN  IF b2.state = "HalfOpen"
                 THEN [b2 EXCEPT !.state = "Closed"]
                 ELSE b2

\* recordResult closing a half-open circuit without resetting the counter.
recordResultKeepsFailures(b, cfg, err, t) ==
    LET b1 == IF b.state = "HalfOpen"
              THEN [b EXCEPT !.requests = @ + 1] ELSE b
    IN  IF err # NoError
        THEN LET b2 == [b1 EXCEPT !.failures = @ + 1, !.lastFailTime = t]
             IN  IF b2.state = "HalfOpen"
                 THEN [b2 EXCEPT !.state = "Open"]
                 ELSE IF b2.failures >= cfg.FailureThreshold
                      THEN [b2 EXCEPT !.state = "Open"]
                      ELSE b2
        ELSE IF b1.state = "HalfOpen"
             THEN [b1 EXCEPT !.state = "Closed"]
             ELSE [b1 EXCEPT !.failures = 0]

\* recordResult without the mutex: of two failures recorded at the same
\* instant one increment is lost.
recordResultLostUpdate(b, cfg, err, t) ==
    LET b1 == IF b.state = "HalfOpen"
              THEN [b EXCEPT !.requests = @ + 1] ELSE b
    IN  IF err # NoError
        THEN LET b2 == [b1 EXCEPT
                           !.failures = IF b.failures > 0 /\ b.lastFailTime = t
                                        THEN @ ELSE @ + 1,
                           !.lastFailTime = t]
             IN  IF b2.state = "HalfOpen"
                 THEN [b2 EXCEPT !.state = "Open"]
                 ELSE IF b2.failures >= cfg.FailureThreshold
                      THEN [b2 EXCEPT !.state = "Open"]
                      ELSE b2
        ELSE LET b2 == [b1 EXCEPT !.failures = 0]
             IN  IF b2.state = "HalfOpen"
                 THEN [b2 EXCEPT !.state = "Closed"]
                 ELSE b2

\* recordResult stamping the failure time only when the circuit opens.
recordResultStampsOnOpen(b, cfg, err, t) ==
    LET b1 == IF b.state = "HalfOpen"
              THEN [b EXCEPT !.requests = @ + 1] ELSE b
    IN  IF err # NoError
        THEN LET b2 == [b1 EXCEPT !.failures = @ + 1]
             IN  IF b2.state = "HalfOpen"
                 THEN [b2 EXCEPT !.state = "Open", !.lastFailTime = t]
                 ELSE IF b2.state = "Closed"
                         /\ b2.failures >= cfg.FailureThreshold
                      THEN [b2 EXCEPT !.state = "Open", !.lastFailTime = t]
                      ELSE b2
        ELSE LET b2 == [b1 EXCEPT !.failures = 0]
             IN  IF b2.state = "HalfOpen"
                 THEN [b2 EXCEPT !.state = "Closed"]
                 ELSE b2

\* recordResult counting no context error as a failure.
recordResultSkipsContext(b, cfg, err, t) ==
    LET b1 == IF b.state = "HalfOpen"
              THEN [b EXCEPT !.requests = @ + 1] ELSE b
    IN  IF err # NoError /\ err.Type # "context"
        THEN LET b2 == [b1 EXCEPT !.failures = @ + 1, !.lastFailTime = t]
             IN  IF b2.state = "HalfOpen"
                 THEN [b2 EXCEPT !.state = "Open"]
                 ELSE IF b2.failures >= cfg.FailureThreshold
                      THEN [b2 EXCEPT !.state = "Open"]
                      ELSE b2
        ELSE LET b2 == [b1 EXCEPT !.failures = 0]
             IN  IF b2.state = "HalfOpen"
                 THEN [b2 EXCEPT !.state = "Closed"]
                 ELSE b2

\* recordResult closing a half-open circuit on any result.
recordResultHalfOpenCloses(b, cfg, err, t) ==
    LET b1 == IF b.state = "HalfOpen"
              THEN [b EXCEPT !.requests = @ + 1] ELSE b
    IN  IF err # NoError
        THEN LET b2 == [b1 EXCEPT !.failures = @ + 1, !.lastFailTime = t]
             IN  IF b2.state = "HalfOpen"
                 THEN [b2 EXCEPT !.state = "Closed"]
                 ELSE IF b2.failures >= cfg.FailureThreshold
                      THEN [b2 EXCEPT !.state = "Open"]
                      ELSE b2
        ELSE LET b2 == [b1 EXCEPT !.failures = 0]
             IN  IF b2.state = "HalfOpen"
                 THEN [b2 EXCEPT !.state = "Closed"]
                 ELSE b2

\* recordResult closing the circuit on every success.
recordResultSuccessCloses(b, cfg, err, t) ==
    LET b1 == IF b.state = "HalfOpen"
              THEN [b EXCEPT !.requests = @ + 1] ELSE b
    IN  IF err # NoError
        THEN LET b2 == [b1 EXCEPT !.failures = @ + 1, !.lastFailTime = t]
             IN  IF b2.state = "HalfOpen"
                 THEN [b2 EXCEPT !.state = "Open"]
                 ELSE IF b2.failures >= cfg.FailureThreshold
                      THEN [b2 EXCEPT !.state = "Open"]
                      ELSE b2
        ELSE [b1 EXCEPT !.failures = 0, !.state = "Closed"]

\* recordResult: the breaker after the result err was recorded at time t.
recordResult(b, cfg, err, t) ==
    LET b1 == IF b.state = "HalfOpen"
              THEN [b EXCEPT !.requests = @ + 1] ELSE b
    IN  IF err # NoError
        THEN LET b2 == [b1 EXCEPT !.failures = @ + 1, !.lastFailTime = t]
             IN  IF b2.state = "HalfOpen"
                 THEN [b2 EXCEPT !.state = "Open"]
                 ELSE IF b2.failures >= cfg.FailureThreshold
                      THEN [b2 EXCEPT !.state = "Open"]
                      ELSE b2
        ELSE LET b2 == [b1 EXCEPT !.failures = 0]
             IN  IF b2.state = "HalfOpen"
                 THEN [b2 EXCEPT !.state = "Closed"]
                 ELSE b2

\* The breaker guarding whatever Enabled says.
GuardedAlways == config.hasBreaker

\* The calls go through an enabled breaker.
Guarded == config.hasBreaker /\ config.Enabled

\* ---------------------------------------------------------------- RetryExecutor
\* isRetryable retrying every ProbeError, whatever the configured set.
isRetryableAnyProbeError(err, cfg) == err.Type \in ErrorTypes

\* isRetryable assuming an unclassifiable error retryable.
isRetryableUnclassified(err, cfg) ==
    \/ err.Type \notin ErrorTypes
    \/ err.Type \in cfg.RetryableErrors

\* errors.As(err, &probeErr): the outermost *ProbeError of err's unwrap
\* chain, Nil when the chain holds none.
RECURSIVE errorsAs(_)
errorsAs(err) ==
    IF err.Type \in ErrorTypes
    THEN err
    ELSE IF "Cause" \in DOMAIN err THEN errorsAs(err.Cause) ELSE Nil

\* isRetryable looking for a retryable kind anywhere in the chain.
RECURSIVE isRetryableAnyLayer(_, _)
isRetryableAnyLayer(err, cfg) ==
    \/ err.Type \in ErrorTypes /\ err.Type \in cfg.RetryableErrors
    \/ "Cause" \in DOMAIN err /\ isRetryableAnyLayer(err.Cause, cfg)

\* isRetryable: the first ProbeError of err's chain has a kind in the
\* retryable set.
isRetryable(err, cfg) ==
    LET probeErr == errorsAs(err)
    IN  /\ probeErr # Nil
        /\ probeErr.Type \in cfg.RetryableErrors

RECURSIVE Pow(_, _)
Pow(b, e) == IF e <= 0 THEN 1 ELSE b * Pow(b, e - 1)

\* calculateDelay with the exponent one too high.
calculateDelayNextAttempt(cfg, a, r) ==
    LET scale == Pow(MultiplierUnit, a + 1)
        prod == cfg.InitialDelay * Pow(cfg.BackoffMultiplier, a + 1)
        quarter == 4 * JitterSteps
        num == IF cfg.Jitter THEN prod * (quarter + r) ELSE prod * quarter
        den == scale * quarter
    IN  IF num > cfg.MaxDelay * den THEN cfg.MaxDelay ELSE num \div den

\* calculateDelay adding the jitter after the cap.
calculateDelayJitterAfterCap(cfg, a, r) ==
    LET scale == Pow(MultiplierUnit, a)
        prod == cfg.InitialDelay * Pow(cfg.BackoffMultiplier, a)
        quarter == 4 * JitterSteps
        den == scale * quarter
        capped == IF prod * quarter > cfg.MaxDelay * den
                  THEN cfg.MaxDelay * den ELSE prod * quarter
        num == IF cfg.Jitter THEN capped + prod * r ELSE capped
    IN  num \div den

\* calculateDelay: the delay after failed attempt a.  The float delay is
\* prod / scale; rand.Float64() is r / JitterSteps, so the jittered delay
\* is num / den; the cap is applied to the float and time.Duration(delay)
\* truncates it to a whole duration unit.
calculateDelay(cfg, a, r) ==
    LET scale == Pow(MultiplierUnit, a)
        prod == cfg.InitialDelay * Pow(cfg.BackoffMultiplier, a)
        quarter == 4 * JitterSteps
        num == IF cfg.Jitter THEN prod * (quarter + r) ELSE prod * quarter
        den == scale * quarter
    IN  IF num > cfg.MaxDelay * den THEN cfg.MaxDelay ELSE num \div den

\* Every attempt recorded by the breaker, when there is one.
afterAttemptRecorded(b, cfg, err, t) ==
    IF cfg.hasBreaker THEN recordResult(b, cfg, err, t) ELSE b

\* The breaker as an attempt inside the retry loop leaves it: the loop
\* never touches the breaker.
afterAttempt(b, cfg, err, t) == b

\* The loop condition with the last retry dropped.
loopContinuesStrict(a, cfg) == a < cfg.MaxRetries

\* The loop condition attempt <= MaxRetries.
loopContinues(a, cfg) == a <= cfg.MaxRetries

\* ---------------------------------------------------------------- steps
\* A failure of a kind in the configured retryable set.
Retryable(e) == e.Type \in ErrorTypes /\ e.Type \in config.RetryableErrors

\* FnReturn wrapping the error it returns.
FnReturnWrapped(c, v, b) ==
    /\ cb' = IF Guarded THEN recordResult(b, config, v, now) ELSE b
    /\ ret' = [ret EXCEPT ![c] =
                 IF v = NoError THEN v
                 ELSE [v EXCEPT !.Message = "max retries exceeded"]]
    /\ pc' = [pc EXCEPT ![c] = "done"]
    /\ attempt' = [attempt EXCEPT ![c] = 0]
    /\ lastErr' = [lastErr EXCEPT ![c] = NoError]
    /\ wakeAt' = [wakeAt EXCEPT ![c] = 0]

\* FnReturn recording the result twice.
FnReturnRecordedTwice(c, v, b) ==
    /\ cb' = IF Guarded
             THEN recordResult(recordResult(b, config, v, now),
                               config, v, now)
             ELSE b
    /\ ret' = [ret EXCEPT ![c] = v]
    /\ pc' = [pc EXCEPT ![c] = "done"]
    /\ attempt' = [attempt EXCEPT ![c] = 0]
    /\ lastErr' = [lastErr EXCEPT ![c] = NoError]
    /\ wakeAt' = [wakeAt EXCEPT ![c] = 0]

\* The guarded function of caller c returns v: CircuitBreaker.Execute
\* records it (when the breaker is enabled) and Execute returns it.  The
\* locals of executeWithRetry end with the call.
FnReturn(c, v, b) ==
    /\ cb' = IF Guarded THEN recordResult(b, config, v, now) ELSE b
    /\ ret' = [ret EXCEPT ![c] = v]
    /\ pc' = [pc EXCEPT ![c] = "done"]
    /\ attempt' = [attempt EXCEPT ![c] = 0]
    /\ lastErr' = [lastErr EXCEPT ![c] = NoError]
    /\ wakeAt' = [wakeAt EXCEPT ![c] = 0]

\* Entry of a call by caller c with a context that is done or not (d).
Enter(c, d) ==
    /\ pc[c] \in {"idle", "done"}
    /\ started < MaxCalls
    /\ started' = started + 1
    /\ ctxDone' = [ctxDone EXCEPT ![c] = d]
    /\ opResult' = [opResult EXCEPT ![c] = NoError]
    /\ onlyRetryable' = [onlyRetryable EXCEPT ![c] = TRUE]

\* The call of caller c goes on at first, n operation invocations begun.
Proceed(c, first, n, how) ==
    /\ admit' = [admit EXCEPT ![c] = how]
    /\ pc' = [pc EXCEPT ![c] = first]
    /\ invoked' = [invoked EXCEPT ![c] = n]
    /\ waited' = [waited EXCEPT ![c] = 0]
    /\ ret' = [ret EXCEPT ![c] = NoError]

\* Admission with fn invoked before the admission check.
AdmissionFnFirst(c, first, n) ==
    IF Guarded
    THEN LET a == allowRequest(cb, config, now)
         IN  /\ cb' = a.cb
             /\ IF a.allow
                THEN Proceed(c, first, n, a.cb.state)
                ELSE /\ admit' = [admit EXCEPT ![c] = "rejected"]
                     /\ pc' = [pc EXCEPT ![c] = "done"]
                     /\ invoked' = [invoked EXCEPT ![c] = 1]
                     /\ waited' = [waited EXCEPT ![c] = 0]
                     /\ ret' = [ret EXCEPT ![c] = BreakerOpenError]
    ELSE /\ cb' = cb
         /\ Proceed(c, first, n, "unguarded")

\* Admission with the breaker inside the retry loop: a rejection is an
\* attempt's failure, followed by a backoff wait.
AdmissionRejectionRetried(c, first, n) ==
    IF Guarded
    THEN LET a == allowRequest(cb, config, now)
         IN  /\ cb' = a.cb
             /\ IF a.allow
                THEN Proceed(c, first, n, a.cb.state)
                ELSE /\ admit' = [admit EXCEPT ![c] = "rejected"]
                     /\ pc' = [pc EXCEPT ![c] =
                               IF first = "loop" THEN "wait" ELSE "done"]
                     /\ invoked' = [invoked EXCEPT ![c] = 0]
                     /\ waited' = [waited EXCEPT ![c] =
                               IF first = "loop" THEN 1 ELSE 0]
                     /\ ret' = [ret EXCEPT ![c] = BreakerOpenError]
    ELSE /\ cb' = cb
         /\ Proceed(c, first, n, "unguarded")

\* CircuitBreaker.Execute up to the invocation of fn; first is where fn
\* starts and n the operation invocations that start with it.
Admission(c, first, n) ==
    IF Guarded
    THEN LET a == allowRequest(cb, config, now)
         IN  /\ cb' = a.cb
             /\ IF a.allow
                THEN Proceed(c, first, n, a.cb.state)
                ELSE /\ admit' = [admit EXCEPT ![c] = "rejected"]
                     /\ pc' = [pc EXCEPT ![c] = "done"]
                     /\ invoked' = [invoked EXCEPT ![c] = 0]
                     /\ waited' = [waited EXCEPT ![c] = 0]
                     /\ ret' = [ret EXCEPT ![c] = BreakerOpenError]
    ELSE /\ cb' = cb
         /\ Proceed(c, first, n, "unguarded")

\* CircuitBreaker.Execute(ctx, operation) called directly.
CircuitBreakerExecute(c) ==
    /\ config.via = "breaker"
    /\ Enter(c, FALSE)
    /\ Admission(c, "op", 1)
    /\ UNCHANGED <<out, delay, seen, config, now, attempt, lastErr, wakeAt>>

\* RetryExecutor.Execute(ctx, operation): through the breaker when there
\* is one, else straight into the retry loop.
RetryExecutorExecute(c) ==
    /\ config.via = "executor"
    /\ \E d \in BOOLEAN : Enter(c, d)
    /\ Admission(c, "loop", 0)
    /\ UNCHANGED <<out, delay, seen, config, now, attempt, lastErr, wakeAt>>

\* LoopHead without the context check.
LoopHeadNoCtxCheck(c) ==
    /\ pc[c] = "loop"
    /\ IF ~loopContinues(attempt[c], config)
       THEN FnReturn(c, lastErr[c], cb) /\ UNCHANGED invoked
       ELSE /\ pc' = [pc EXCEPT ![c] = "op"]
            /\ invoked' = [invoked EXCEPT ![c] = @ + 1]
            /\ UNCHANGED <<cb, ret, attempt, lastErr, wakeAt>>
    /\ UNCHANGED <<out, delay, seen, config, now, started, ctxDone, admit, opResult, waited,
                   onlyRetryable>>

\* LoopHead asking the breaker before every attempt.
LoopHeadChecksBreaker(c) ==
    /\ pc[c] = "loop"
    /\ IF ~loopContinues(attempt[c], config)
       THEN FnReturn(c, lastErr[c], cb) /\ UNCHANGED invoked
       ELSE IF ctxDone[c]
            THEN FnReturn(c, CtxError, cb) /\ UNCHANGED invoked
            ELSE IF Guarded /\ ~allowRequest(cb, config, now).allow
                 THEN FnReturn(c, BreakerOpenError, cb) /\ UNCHANGED invoked
                 ELSE /\ pc' = [pc EXCEPT ![c] = "op"]
                      /\ invoked' = [invoked EXCEPT ![c] = @ + 1]
                      /\ UNCHANGED <<cb, ret, attempt, lastErr, wakeAt>>
    /\ UNCHANGED <<out, delay, seen, config, now, started, ctxDone, admit, opResult,
                   waited, onlyRetryable>>

\* Head of the retry loop: the loop condition, the context check and the
\* start of the operation.
LoopHead(c) ==
    /\ pc[c] = "loop"
    /\ IF ~loopContinues(attempt[c], config)
       THEN FnReturn(c, lastErr[c], cb) /\ UNCHANGED invoked
       ELSE IF ctxDone[c]
            THEN FnReturn(c, CtxError, cb) /\ UNCHANGED invoked
            ELSE /\ pc' = [pc EXCEPT ![c] = "op"]
                 /\ invoked' = [invoked EXCEPT ![c] = @ + 1]
                 /\ UNCHANGED <<cb, ret, attempt, lastErr, wakeAt>>
    /\ UNCHANGED <<out, delay, seen, config, now, started, ctxDone, admit, opResult, waited,
                   onlyRetryable>>

\* The operation returns e in a direct CircuitBreaker.Execute call.
OpReturnDirect(c, e) ==
    /\ config.via = "breaker"
    /\ pc[c] = "op"
    /\ opResult' = [opResult EXCEPT ![c] = e]
    /\ onlyRetryable' = [onlyRetryable EXCEPT ![c] = @ /\ Retryable(e)]
    /\ FnReturn(c, e, cb)
    /\ UNCHANGED <<out, delay, seen, config, now, started, ctxDone, admit, invoked, waited>>

\* OpReturnRetry returning lastErr after a success.
OpReturnRetryKeepsLastErr(c, e, r) ==
    /\ config.via = "executor"
    /\ pc[c] = "op"
    /\ opResult' = [opResult EXCEPT ![c] = e]
    /\ onlyRetryable' = [onlyRetryable EXCEPT ![c] = @ /\ Retryable(e)]
    /\ LET b == afterAttempt(cb, config, e, now)
       IN  IF e = NoError
           THEN FnReturn(c, lastErr[c], b) /\ UNCHANGED waited
           ELSE IF ~isRetryable(e, config)
                THEN FnReturn(c, e, b) /\ UNCHANGED waited
                ELSE IF attempt[c] = config.MaxRetries
                     THEN FnReturn(c, e, b) /\ UNCHANGED waited
                     ELSE /\ lastErr' = [lastErr EXCEPT ![c] = e]
                          /\ wakeAt' = [wakeAt EXCEPT ![c] =
                                 now + calculateDelay(config, attempt[c], r)]
                          /\ waited' = [waited EXCEPT ![c] = @ + 1]
                          /\ pc' = [pc EXCEPT ![c] = "wait"]
                          /\ cb' = b
                          /\ UNCHANGED <<ret, attempt>>
    /\ UNCHANGED <<out, delay, seen, config, now, started, ctxDone, admit, invoked>>

\* OpReturnRetry without the check for the last attempt: a wait follows
\* every retryable failure.
OpReturnRetryAlwaysWaits(c, e, r) ==
    /\ config.via = "executor"
    /\ pc[c] = "op"
    /\ opResult' = [opResult EXCEPT ![c] = e]
    /\ onlyRetryable' = [onlyRetryable EXCEPT ![c] = @ /\ Retryable(e)]
    /\ LET b == afterAttempt(cb, config, e, now)
       IN  IF e = NoError
           THEN FnReturn(c, NoError, b) /\ UNCHANGED waited
           ELSE IF ~isRetryable(e, config)
                THEN FnReturn(c, e, b) /\ UNCHANGED waited
                ELSE /\ lastErr' = [lastErr EXCEPT ![c] = e]
                     /\ wakeAt' = [wakeAt EXCEPT ![c] =
                            now + calculateDelay(config, attempt[c], r)]
                     /\ waited' = [waited EXCEPT ![c] = @ + 1]
                     /\ pc' = [pc EXCEPT ![c] = "wait"]
                     /\ cb' = b
                     /\ UNCHANGED <<ret, attempt>>
    /\ UNCHANGED <<out, delay, seen, config, now, started, ctxDone, admit, invoked>>

\* The operation returns e inside the retry loop: success, non-retryable
\* error, last attempt, or the start of the backoff wait.
OpReturnRetry(c, e, r) ==
    /\ config.via = "executor"
    /\ pc[c] = "op"
    /\ opResult' = [opResult EXCEPT ![c] = e]
    /\ onlyRetryable' = [onlyRetryable EXCEPT ![c] = @ /\ Retryable(e)]
    /\ LET b == afterAttempt(cb, config, e, now)
       IN  IF e = NoError
           THEN FnReturn(c, NoError, b) /\ UNCHANGED waited
           ELSE IF ~isRetryable(e, config)
                THEN FnReturn(c, e, b) /\ UNCHANGED waited
                ELSE IF attempt[c] = config.MaxRetries
                     THEN FnReturn(c, e, b) /\ UNCHANGED waited
                     ELSE /\ lastErr' = [lastErr EXCEPT ![c] = e]
                          /\ wakeAt' = [wakeAt EXCEPT ![c] =
                                 now + calculateDelay(config, attempt[c], r)]
                          /\ waited' = [waited EXCEPT ![c] = @ + 1]
                          /\ pc' = [pc EXCEPT ![c] = "wait"]
                          /\ cb' = b
                          /\ UNCHANGED <<ret, attempt>>
    /\ UNCHANGED <<out, delay, seen, config, now, started, ctxDone, admit, invoked>>

\* WaitElapsed without waiting for the timer.
WaitElapsedEarly(c) ==
    /\ pc[c] = "wait"
    /\ attempt' = [attempt EXCEPT ![c] = @ + 1]
    /\ wakeAt' = [wakeAt EXCEPT ![c] = 0]
    /\ pc' = [pc EXCEPT ![c] = "loop"]
    /\ UNCHANGED <<out, delay, seen, config, cb, now, started, ctxDone, lastErr, ret,
                   admit, opResult, invoked, waited, onlyRetryable>>

\* The backoff wait ends because the delay elapsed: next iteration.
WaitElapsed(c) ==
    /\ pc[c] = "wait"
    /\ now >= wakeAt[c]
    /\ attempt' = [attempt EXCEPT ![c] = @ + 1]
    /\ wakeAt' = [wakeAt EXCEPT ![c] = 0]
    /\ pc' = [pc EXCEPT ![c] = "loop"]
    /\ UNCHANGED <<out, delay, seen, config, cb, now, started, ctxDone, lastErr, ret, admit,
                   opResult, invoked, waited, onlyRetryable>>

\* WaitCancelled returning the last operation error.
WaitCancelledReturnsLastErr(c) ==
    /\ pc[c] = "wait"
    /\ ctxDone[c]
    /\ FnReturn(c, lastErr[c], cb)
    /\ UNCHANGED <<out, delay, seen, config, now, started, ctxDone, admit, opResult, invoked,
                   waited, onlyRetryable>>

\* The backoff wait ends because the context completed.
WaitCancelled(c) ==
    /\ pc[c] = "wait"
    /\ ctxDone[c]
    /\ FnReturn(c, CtxError, cb)
    /\ UNCHANGED <<out, delay, seen, config, now, started, ctxDone, admit, opResult, invoked,
                   waited, onlyRetryable>>

\* The caller's context is cancelled or its deadline passes.
Cancel(c) ==
    /\ config.via = "executor"
    /\ pc[c] \in {"loop", "op", "wait"}
    /\ ~ctxDone[c]
    /\ ctxDone' = [ctxDone EXCEPT ![c] = TRUE]
    /\ UNCHANGED <<out, delay, seen, config, cb, now, started, pc, attempt, lastErr, wakeAt,
                   ret, admit, opResult, invoked, waited, onlyRetryable>>

\* GetState performing the Open to HalfOpen transition when it is due.
GetStateLazy ==
    /\ config.via = "breaker"
    /\ cb' = IF Guarded THEN allowRequest(cb, config, now).cb ELSE cb
    /\ seen' = cb'.state
    /\ UNCHANGED <<out, delay, config, now, started, pc, ctxDone, attempt, lastErr,
                   wakeAt, ret, admit, opResult, invoked, waited,
                   onlyRetryable>>

\* CircuitBreaker.GetState() on a standalone breaker (the executor's
\* breaker is an unexported field without accessor).
GetState ==
    /\ config.via = "breaker"
    /\ seen' = cb.state
    /\ UNCHANGED <<out, delay, config, cb, now, started, pc, ctxDone, attempt, lastErr,
                   wakeAt, ret, admit, opResult, invoked, waited,
                   onlyRetryable>>

\* Time passes.
Tick ==
    /\ now < MaxTime
    /\ now' = now + 1
    /\ UNCHANGED <<out, delay, seen, config, cb, started, pc, ctxDone, attempt, lastErr,
                   wakeAt, ret, admit, opResult, invoked, waited,
                   onlyRetryable>>

\* ---------------------------------------------------------------- specification
\* Nothing has been called yet.
Fresh ==
    /\ cb = NewCircuitBreaker
    /\ now = 0
    /\ started = 0
    /\ pc = [c \in Callers |-> "idle"]
    /\ ctxDone = [c \in Callers |-> FALSE]
    /\ attempt = [c \in Callers |-> 0]
    /\ lastErr = [c \in Callers |-> NoError]
    /\ wakeAt = [c \in Callers |-> 0]
    /\ ret = [c \in Callers |-> NoError]
    /\ admit = [c \in Callers |-> "none"]
    /\ opResult = [c \in Callers |-> NoError]
    /\ invoked = [c \in Callers |-> 0]
    /\ waited = [c \in Callers |-> 0]
    /\ onlyRetryable = [c \in Callers |-> TRUE]
    /\ seen = "none"
    /\ delay = [attempt |-> -1, value |-> 0]
    /\ out = [fn |-> "none", arg |-> Nil, value |-> Nil]

Init == config \in Configs /\ Fresh

Next ==
    \/ \E c \in Callers : CircuitBreakerExecute(c)
    \/ \E c \in Callers : RetryExecutorExecute(c)
    \/ \E c \in Callers : LoopHead(c)
    \/ \E c \in Callers, e \in OpResults : OpReturnDirect(c, e)
    \/ \E c \in Callers, e \in OpResults, r \in 0..(JitterSteps - 1) :
          OpReturnRetry(c, e, r)
    \/ \E c \in Callers : WaitElapsed(c)
    \/ \E c \in Callers : WaitCancelled(c)
    \/ \E c \in Callers : Cancel(c)
    \/ GetState
    \/ Tick

Spec == Init /\ [][Next]_vars

\* ---------------------------------------------------------------- termination
\* A time.After timer of some caller has not fired yet.
TimerPending == \E c \in Callers : pc[c] = "wait" /\ now < wakeAt[c]

\* Time passes, also beyond MaxTime while a timer is pending.
TimePasses ==
    /\ now < MaxTime \/ TimerPending
    /\ now' = now + 1
    /\ UNCHANGED <<out, delay, seen, config, cb, started, pc, ctxDone, attempt,
                   lastErr, wakeAt, ret, admit, opResult, invoked, waited,
                   onlyRetryable>>

LiveInit == Init /\ config.via = "executor"

\* RetryExecutor.Execute, as many calls as there are callers.
ExecuteOnce(c) == started < Cardinality(Callers) /\ RetryExecutorExecute(c)

LiveNext ==
    \/ \E c \in Callers : ExecuteOnce(c)
    \/ \E c \in Callers : LoopHead(c)
    \/ \E c \in Callers, e \in OpResults, r \in 0..(JitterSteps - 1) :
          OpReturnRetry(c, e, r)
    \/ \E c \in Callers : WaitElapsed(c)
    \/ \E c \in Callers : WaitCancelled(c)
    \/ \E c \in Callers : Cancel(c)
    \/ TimePasses

\* Every goroutine goes on running, every invocation of the operation
\* returns, every timer that is due and every done context is noticed, and
\* time advances.
Fairness ==
    /\ \A c \in Callers :
        /\ WF_vars(LoopHead(c))
        /\ WF_vars(\E e \in OpResults, r \in 0..(JitterSteps - 1) :
                      OpReturnRetry(c, e, r))
        /\ WF_vars(WaitElapsed(c))
        /\ WF_vars(WaitCancelled(c))
    /\ WF_vars(TimePasses)

\* RetryExecutor.Execute under a fair scheduler.
LiveSpec == LiveInit /\ [][LiveNext]_vars /\ Fairness

\* ------------------------------------------------------- any integer MaxRetries
\* MaxRetries is a plain int that NewRetryExecutor stores unchecked; -1
\* stands for its negative values.
IntRetryConfigs ==
    {[rc EXCEPT !.MaxRetries = m] :
        rc \in RetryConfigs, m \in (-1)..MaxRetriesBound}

IntInit ==
    /\ config \in {NewRetryExecutor(rc, bc) :
                      rc \in IntRetryConfigs,
                      bc \in {Nil} \cup {b \in BreakerConfigs : b.Enabled}}
    /\ Fresh

\* RetryExecutor.Execute over every sign of MaxRetries.
IntSpec == IntInit /\ [][LiveNext]_vars

\* ------------------------------------------------- sequential callers, failing target
\* CircuitBreaker.Execute by a caller that starts only when no other call
\* is running.  Calls may arrive for ever: started counts the admitted
\* ones, a rejected call leaves nothing behind but its error.
SeqExecute(c) ==
    /\ config.via = "breaker"
    /\ \A d \in Callers : pc[d] \in {"idle", "done"}
    /\ started < MaxCalls
    /\ started' = IF allowRequest(cb, config, now).allow
                  THEN started + 1 ELSE started
    /\ ctxDone' = [ctxDone EXCEPT ![c] = FALSE]
    /\ opResult' = [opResult EXCEPT ![c] = NoError]
    /\ onlyRetryable' = [onlyRetryable EXCEPT ![c] = TRUE]
    /\ Admission(c, "op", 1)
    /\ UNCHANGED <<out, delay, seen, config, now, attempt, lastErr, wakeAt>>

\* The target fails: the operation returns some error.
SeqReturn(c) ==
    /\ pc[c] = "op"
    /\ \E e \in OpResults \ {NoError} : OpReturnDirect(c, e)

\* Time passes, also beyond MaxTime while an Open breaker waits for its
\* reset timeout.
SeqTick ==
    /\ \/ now < MaxTime
       \/ cb.state = "Open" /\ now - cb.lastFailTime <= config.ResetTimeout
    /\ now' = now + 1
    /\ UNCHANGED <<out, delay, seen, config, cb, started, pc, ctxDone, attempt,
                   lastErr, wakeAt, ret, admit, opResult, invoked, waited,
                   onlyRetryable>>

SeqInit ==
    /\ config \in {StandaloneBreaker(bc) : bc \in {b \in BreakerConfigs : b.Enabled}}
    /\ Fresh

SeqNext ==
    \/ \E c \in Callers : SeqExecute(c)
    \/ \E c \in Callers : SeqReturn(c)
    \/ SeqTick

\* Calls keep arriving, every invocation returns, and time advances.
SeqFairness ==
    /\ WF_vars(\E c \in Callers : SeqExecute(c))
    /\ WF_vars(\E c \in Callers : SeqReturn(c))
    /\ WF_vars(SeqTick)

SeqSpec == SeqInit /\ [][SeqNext]_vars /\ SeqFairness

\* ---------------------------------------------------------------- construction and delays
\* The retry policies calculateDelay is evaluated under: among them the
\* one of TestCalculateDelay (100 ms, cap 1 s, multiplier 2.0), fractional
\* multipliers and an initial delay above the cap.
UnitRetryConfigs ==
    [MaxRetries : {3},
     InitialDelay : {1, 3, 100},
     MaxDelay : {2, 1000},
     BackoffMultiplier : MultiplierUnit..(2 * MultiplierUnit),
     Jitter : BOOLEAN,
     RetryableErrors : {{"network", "timeout"}}]

\* The executors and breakers the constructors build, from nil and from
\* given configs.
UnitConfigs ==
    {NewRetryExecutor(rc, bc) :
        rc \in {Nil} \cup UnitRetryConfigs,
        bc \in {Nil, DefaultCircuitBreakerConfig}}
    \cup {StandaloneBreaker(bc) : bc \in {Nil} \cup BreakerConfigs}

\* re.calculateDelay(a), with rand.Float64() drawing r / JitterSteps.
CalculateDelay(a, r) ==
    /\ config.via = "executor"
    /\ delay' = [attempt |-> a, value |-> calculateDelay(config, a, r)]
    /\ UNCHANGED <<out, seen, config, cb, now, started, pc, ctxDone,
                   attempt, lastErr, wakeAt, ret, admit, opResult, invoked,
                   waited, onlyRetryable>>

UnitInit == config \in UnitConfigs /\ Fresh

UnitNext ==
    \/ \E a \in 0..MaxAttempt, r \in 0..(JitterSteps - 1) : CalculateDelay(a, r)
    \/ GetState

\* A freshly constructed executor or breaker and its pure methods.
UnitSpec == UnitInit /\ [][UnitNext]_vars

\* ---------------------------------------------------------------- fetching and validation
\* strings.ToLower, word by word; an error text is a sequence of words.
ToLower(w) ==
    CASE w = "Timeout" -> "timeout"
      [] w = "Client" -> "client"
      [] w = "Deadline" -> "deadline"
      [] w = "Exceeded" -> "exceeded"
      [] OTHER -> w

\* strings.Contains on sequences of words.
Contains(text, sub) ==
    \E i \in 1..(Len(text) - Len(sub) + 1) :
        SubSeq(text, i, i + Len(sub) - 1) = sub

\* isTimeoutError(err).
isTimeoutError(err) ==
    LET text == [i \in 1..Len(err.Message) |-> ToLower(err.Message[i])]
    IN  Contains(text, <<"timeout">>)
            \/ Contains(text, <<"deadline", "exceeded">>)

\* What the transport may report instead of a response.
TransportErrors ==
    {[Type |-> "unclassified", Message |-> m] :
        m \in {<<"dial", "tcp", "connection", "refused">>,
               <<"read", "tcp", "i/o", "timeout">>,
               <<"context", "deadline", "exceeded">>,
               <<"net/http", "Client", "Timeout", "exceeded">>,
               <<"Deadline", "Exceeded">>,
               <<"deadline", "passed">>,
               <<"exceeded", "deadline">>,
               <<"EOF">>}}

StatusCodes == {100, 101, 199, 200, 201, 204, 301, 304, 399,
                400, 401, 403, 404, 429, 499, 500, 502, 503, 599, 600}

\* What h.client.R().Get returns: an error, or a response with a status
\* code and a body.
Responses ==
    {[err |-> e, status |-> 0, body |-> ""] : e \in TransportErrors}
        \cup [err : {Nil}, status : StatusCodes, body : {"", "#EXTM3U"}]

NewTimeoutError == [Type |-> "timeout", Message |-> "request timed out"]

NewAuthError == [Type |-> "auth", Message |-> "authentication failed"]

NewNetworkError(cause) ==
    [Type |-> "network", Message |-> "failed to fetch manifest",
     Cause |-> cause]

NewValidationError(message) == [Type |-> "validation", Message |-> message]

\* fmt.Errorf without %w: a plain error with the given text.
Errorf(message) == [Type |-> "unclassified", Message |-> message]

\* FetchManifest with the client-error test open at the top.
FetchManifestNoUpperBound(r) ==
    IF r.err # Nil
    THEN IF isTimeoutError(r.err)
         THEN [body |-> "", err |-> NewTimeoutError]
         ELSE [body |-> "", err |-> NewNetworkError(r.err)]
    ELSE IF r.status >= 400
    THEN [body |-> "", err |-> NewAuthError]
    ELSE IF r.status # 200
    THEN [body |-> "",
          err |-> NewNetworkError(Errorf("unexpected status code"))]
    ELSE IF r.body = ""
    THEN [body |-> "",
          err |-> NewNetworkError(Errorf("received empty response"))]
    ELSE [body |-> r.body, err |-> NoError]

\* FetchManifest, given what the GET returned.
FetchManifest(r) ==
    IF r.err # Nil
    THEN IF isTimeoutError(r.err)
         THEN [body |-> "", err |-> NewTimeoutError]
         ELSE [body |-> "", err |-> NewNetworkError(r.err)]
    ELSE IF r.status >= 400 /\ r.status < 500
    THEN [body |-> "", err |-> NewAuthError]
    ELSE IF r.status >= 500
    THEN [body |-> "", err |-> NewNetworkError(Errorf("server error"))]
    ELSE IF r.status # 200
    THEN [body |-> "",
          err |-> NewNetworkError(Errorf("unexpected status code"))]
    ELSE IF r.body = ""
    THEN [body |-> "",
          err |-> NewNetworkError(Errorf("received empty response"))]
    ELSE [body |-> r.body, err |-> NoError]

\* url.Parse(u) fails: u, a sequence of lexical pieces, begins with the
\* colon (missing protocol scheme) or opens a bracketed host that it
\* does not close.
urlParseFails(u) ==
    \/ Len(u) > 0 /\ u[1] = ":"
    \/ \E i \in 1..Len(u) :
          u[i] = "[" /\ ~\E j \in (i + 1)..Len(u) : u[j] = "]"

ProxyURLs ==
    {<<>>,
     <<"http", ":", "//", "proxy", ":", "8080">>,
     <<"proxy">>,
     <<"http", ":", "//", "[", "::1", "]", ":", "8080">>,
     <<":", "//", "invalid-url">>,
     <<"http", ":", "//", "[", "::1">>,
     <<":">>}

MaxTimeoutSeconds == 300

TimeoutValues ==
    ((-2)..2) \cup {30, 400}
        \cup ((MaxTimeoutSeconds - 2)..(MaxTimeoutSeconds + 2))

\* *ProbeOptions, as far as validation reads them.
ProbeOptions ==
    {Nil} \cup [ProxyURL : ProxyURLs, TimeoutSeconds : TimeoutValues]

\* validateProbeOptions rejecting the largest timeout too.
validateProbeOptionsBelowMax(opts) ==
    IF opts = Nil
    THEN NoError
    ELSE IF opts.ProxyURL # <<>> /\ urlParseFails(opts.ProxyURL)
    THEN NewValidationError("invalid proxy URL")
    ELSE IF opts.TimeoutSeconds < 0
    THEN NewValidationError("timeout cannot be negative")
    ELSE IF opts.TimeoutSeconds >= MaxTimeoutSeconds
    THEN NewValidationError("timeout cannot exceed 300 seconds")
    ELSE NoError

\* validateProbeOptions(opts).
validateProbeOptions(opts) ==
    IF opts = Nil
    THEN NoError
    ELSE IF opts.ProxyURL # <<>> /\ urlParseFails(opts.ProxyURL)
    THEN NewValidationError("invalid proxy URL")
    ELSE IF opts.TimeoutSeconds < 0
    THEN NewValidationError("timeout cannot be negative")
    ELSE IF opts.TimeoutSeconds > MaxTimeoutSeconds
    THEN NewValidationError("timeout cannot exceed 300 seconds")
    ELSE NoError

\* h.FetchManifest(url) when the GET returns r.
CallFetchManifest(r) ==
    /\ out' = [fn |-> "FetchManifest", arg |-> r, value |-> FetchManifest(r)]
    /\ UNCHANGED <<delay, seen, config, cb, now, started, pc, ctxDone, attempt,
                   lastErr, wakeAt, ret, admit, opResult, invoked, waited,
                   onlyRetryable>>

\* validateProbeOptions(opts).
CallValidateProbeOptions(opts) ==
    /\ out' = [fn |-> "validateProbeOptions", arg |-> opts,
               value |-> validateProbeOptions(opts)]
    /\ UNCHANGED <<delay, seen, config, cb, now, started, pc, ctxDone, attempt,
                   lastErr, wakeAt, ret, admit, opResult, invoked, waited,
                   onlyRetryable>>

\* re.isRetryable(err).
CallIsRetryable(err) ==
    /\ out' = [fn |-> "isRetryable", arg |-> err,
               value |-> isRetryable(err, config)]
    /\ UNCHANGED <<delay, seen, config, cb, now, started, pc, ctxDone, attempt,
                   lastErr, wakeAt, ret, admit, opResult, invoked, waited,
                   onlyRetryable>>

\* Executors over the default policy and over each retryable set.
FuncInit ==
    /\ config \in {NewRetryExecutor(rc, Nil) :
                      rc \in {Nil} \cup
                             {[DefaultRetryConfig EXCEPT !.RetryableErrors = rs] :
                                 rs \in RetryableSets}}
    /\ Fresh

FuncNext ==
    \/ \E r \in Responses : CallFetchManifest(r)
    \/ \E opts \in ProbeOptions : CallValidateProbeOptions(opts)
    \/ \E err \in Chains(MaxChain) : CallIsRetryable(err)

FuncSpec == FuncInit /\ [][FuncNext]_vars

TypeOK ==
    /\ cb.state \in {"Closed", "Open", "HalfOpen"}
    /\ cb.failures \in 0..MaxCalls
    /\ now \in 0..MaxTime
    /\ \A c \in Callers : pc[c] \in {"idle", "loop", "op", "wait", "done"}
\* ---------------------------------------------------------------- properties
InFlight(c) == pc[c] \in {"loop", "op", "wait"}

\* Caller c enters Execute in this step.
Calls(c) == CircuitBreakerExecute(c) \/ RetryExecutorExecute(c)

\* The result of caller c's guarded function is recorded in this step.
Records(c) == Guarded /\ InFlight(c) /\ pc'[c] = "done"

\* An operation error that is not of a retryable kind.
NonRetryable(e) == e # NoError /\ ~Retryable(e)

\* C1: a call the admission check rejects never invokes the operation and
\* returns the ProbeError {network, "circuit breaker is open"}.
C1_RejectedCallNotInvoked ==
    \A c \in Callers :
        admit[c] = "rejected" =>
            /\ Guarded
            /\ pc[c] = "done"
            /\ invoked[c] = 0
            /\ ret[c] = [Type |-> "network",
                         Message |-> "circuit breaker is open"]

C1_Witness ==
    \E c \in Callers :
        /\ config.via = "breaker"
        /\ admit[c] = "rejected"
        /\ pc[c] = "done"

\* C2: a new breaker is Closed; in Closed a recorded failure opens the
\* circuit exactly when it brings the consecutive-failure counter to
\* FailureThreshold (FailureThreshold failing calls on a new breaker leave
\* it Open, fewer leave it Closed); a call arriving while Open within
\* ResetTimeout of the last failure is rejected without invoking the
\* operation.
C2_OpensAtThreshold ==
    /\ [](Guarded /\ started < config.FailureThreshold
            => cb.state = "Closed")
    /\ [](Guarded /\ started = config.FailureThreshold
            /\ cb.failures = config.FailureThreshold
            /\ (\A c \in Callers : ~InFlight(c))
            => cb.state = "Open")
    /\ [][\A c \in Callers :
            Records(c) /\ cb.state = "Closed" /\ ret'[c] # NoError =>
                /\ cb'.failures = cb.failures + 1
                /\ cb'.state = IF cb'.failures >= config.FailureThreshold
                               THEN "Open" ELSE "Closed"]_vars
    /\ [][\A c \in Callers :
            Calls(c) /\ Guarded /\ cb.state = "Open"
            /\ now - cb.lastFailTime <= config.ResetTimeout =>
                /\ admit'[c] = "rejected"
                /\ pc'[c] = "done"
                /\ invoked'[c] = 0
                /\ cb'.state = "Open"]_vars

C2_Witness ==
    /\ Guarded
    /\ config.FailureThreshold = 2
    /\ started = 3
    /\ cb.state = "Open"
    /\ cb.failures = 2
    /\ \E c \in Callers : admit[c] = "rejected" /\ pc[c] = "done"

\* C3: while the breaker is half-open, at most HalfOpenMaxRequests admitted
\* calls are in progress before a result is recorded.
C3_HalfOpenBudget ==
    cb.state = "HalfOpen" =>
        Cardinality({c \in Callers : InFlight(c) /\ admit[c] = "HalfOpen"})
            <= config.HalfOpenMaxRequests

\* C4: a call arriving while Open is admitted iff now - lastFailTime >
\* ResetTimeout; admitted, the state is HalfOpen with requests = 0 when the
\* operation starts; otherwise it is rejected and the breaker is unchanged.
C4_OpenAdmitsAfterTimeout ==
    [][\A c \in Callers :
        Calls(c) /\ Guarded /\ cb.state = "Open" =>
            IF now - cb.lastFailTime > config.ResetTimeout
            THEN /\ admit'[c] = "HalfOpen"
                 /\ InFlight(c)'
                 /\ cb'.state = "HalfOpen"
                 /\ cb'.requests = 0
            ELSE /\ admit'[c] = "rejected"
                 /\ pc'[c] = "done"
                 /\ invoked'[c] = 0
                 /\ cb' = cb]_vars

C4_Witness ==
    /\ cb.state = "HalfOpen"
    /\ cb.requests = 0
    /\ now - cb.lastFailTime = config.ResetTimeout + 1
    /\ \E c, d \in Callers :
        /\ admit[c] = "HalfOpen" /\ InFlight(c)
        /\ admit[d] = "rejected" /\ pc[d] = "done"

C6_HalfOpenSuccessCloses ==
    [][\A c \in Callers :
        Records(c) /\ cb.state = "HalfOpen" /\ ret'[c] = NoError =>
            /\ cb'.state = "Closed"
            /\ cb'.failures = 0]_vars

C6_Witness ==
    /\ cb.state = "Closed"
    /\ cb.failures = 0
    /\ cb.requests = 1
    /\ \E c \in Callers :
        admit[c] = "HalfOpen" /\ pc[c] = "done" /\ ret[c] = NoError

\* C7: with a breaker, each RetryExecutor.Execute call is one recorded
\* result: an attempt that is retried records nothing, a failed call raises
\* the failure counter by 1, a successful call resets it to 0, and fewer
\* than FailureThreshold calls never open the circuit.
C7_OneResultPerExecute ==
    /\ [][\A c \in Callers :
            config.via = "executor" /\ Guarded =>
                /\ (pc[c] = "op" /\ pc'[c] = "wait" => cb' = cb)
                /\ (Records(c) /\ ret'[c] # NoError
                        => cb'.failures = cb.failures + 1)
                /\ (Records(c) /\ ret'[c] = NoError => cb'.failures = 0)]_vars
    /\ [](config.via = "executor" /\ Guarded
            /\ started < config.FailureThreshold => cb.state = "Closed")

C7_Witness ==
    /\ config.via = "executor"
    /\ Guarded
    /\ config.MaxRetries >= 1
    /\ cb.state = "Closed"
    /\ cb.failures = 1
    /\ \E c \in Callers :
        /\ pc[c] = "done"
        /\ invoked[c] = config.MaxRetries + 1
        /\ Retryable(ret[c])

\* C8: a RetryExecutor.Execute call rejected by the breaker has invoked the
\* operation zero times and waited zero times when the rejection error is
\* returned.
C8_RejectionBeforeAnyAttempt ==
    \A c \in Callers :
        config.via = "executor" /\ admit[c] = "rejected" =>
            /\ pc[c] = "done"
            /\ invoked[c] = 0
            /\ waited[c] = 0
            /\ ret[c] = BreakerOpenError

C8_Witness ==
    \E c \in Callers :
        /\ config.via = "executor"
        /\ config.MaxRetries >= 1
        /\ admit[c] = "rejected"
        /\ pc[c] = "done"
        /\ ret[c] = BreakerOpenError

\* C9: with MaxRetries = N >= 0 and a context never done, a call whose
\* every invocation failed with a retryable error has invoked the operation
\* exactly N+1 times and returns the error of the last invocation.
C9_ExhaustsAllAttempts ==
    \A c \in Callers :
        /\ config.via = "executor"
        /\ config.MaxRetries >= 0
        /\ pc[c] = "done"
        /\ admit[c] # "rejected"
        /\ ~ctxDone[c]
        /\ onlyRetryable[c]
        => /\ invoked[c] = config.MaxRetries + 1
           /\ ret[c] = opResult[c]
           /\ ret[c] # NoError

C9_Witness ==
    \E c \in Callers :
        /\ config.via = "executor"
        /\ config.MaxRetries >= 1
        /\ pc[c] = "done"
        /\ ~ctxDone[c]
        /\ onlyRetryable[c]
        /\ invoked[c] = config.MaxRetries + 1
        /\ ret[c] = ProbeError("timeout")

\* C10: the first invocation returning an error that is not of a retryable
\* kind ends the retry sequence: that error is returned, with no further
\* invocation and no wait.
C10_NonRetryableStops ==
    /\ [][\A c \in Callers :
            /\ config.via = "executor"
            /\ pc[c] = "op" /\ pc'[c] # "op"
            /\ NonRetryable(opResult'[c])
            => /\ pc'[c] = "done"
               /\ ret'[c] = opResult'[c]
               /\ waited'[c] = waited[c]
               /\ invoked'[c] = invoked[c]]_vars
    /\ [](\A c \in Callers :
            /\ config.via = "executor"
            /\ pc[c] = "done"
            /\ NonRetryable(opResult[c])
            => /\ ret[c] = opResult[c]
               /\ invoked[c] = waited[c] + 1)

C10_Witness ==
    \E c \in Callers :
        /\ config.via = "executor"
        /\ config.MaxRetries >= 1
        /\ pc[c] = "done"
        /\ opResult[c] = ProbeError("auth")
        /\ ret[c] = ProbeError("auth")
        /\ invoked[c] = 1
        /\ waited[c] = 0

\* The call of caller c went through the admission check and was let in.
Admitted(c) == admit[c] \in {"Closed", "HalfOpen", "unguarded"}

\* C11: an operation that fails retryably k-1 times and succeeds on
\* invocation k makes Execute return nil after exactly k invocations and
\* k-1 waits, with nothing after the success.
C11_SuccessAfterRetries ==
    /\ [](\A c \in Callers :
            /\ config.via = "executor"
            /\ pc[c] = "done"
            /\ invoked[c] >= 1
            /\ opResult[c] = NoError
            => /\ ret[c] = NoError
               /\ waited[c] = invoked[c] - 1
               /\ invoked[c] <= config.MaxRetries + 1)
    /\ [][\A c \in Callers :
            /\ config.via = "executor"
            /\ pc[c] = "op" /\ pc'[c] # "op"
            /\ opResult'[c] = NoError
            => /\ pc'[c] = "done"
               /\ invoked'[c] = invoked[c]
               /\ waited'[c] = waited[c]]_vars

C11_Witness ==
    \E c \in Callers :
        /\ config.via = "executor"
        /\ config.MaxRetries >= 1
        /\ pc[c] = "done"
        /\ opResult[c] = NoError
        /\ ret[c] = NoError
        /\ invoked[c] = 2
        /\ waited[c] = 1

\* C12 as stated: a call entered with a done context (finished with zero
\* invocations) returns the context's error.
C12_DoneContextAlwaysCtxError ==
    \A c \in Callers :
        /\ config.via = "executor"
        /\ pc[c] = "done"
        /\ ctxDone[c]
        /\ invoked[c] = 0
        => ret[c] = CtxError

\* C12 amended: once the context is done the retry loop starts no further
\* invocation; a call let into the loop whose context was done before the
\* first attempt invokes nothing and returns the context's error, and a
\* call whose context is done at the loop head or in a backoff wait ends
\* with the context's error; a call the breaker rejects returns the
\* rejection error whatever its context.
C12_NoAttemptAfterContextDone ==
    /\ [][\A c \in Callers :
            config.via = "executor" /\ InFlight(c) /\ ctxDone[c] =>
                /\ invoked'[c] = invoked[c]
                /\ pc'[c] # "op" \/ pc[c] = "op"]_vars
    /\ [][\A c \in Callers :
            /\ config.via = "executor"
            /\ pc[c] \in {"loop", "wait"} /\ ctxDone[c]
            /\ pc'[c] = "done"
            => ret'[c] = CtxError]_vars
    /\ [](\A c \in Callers :
            /\ config.via = "executor"
            /\ pc[c] = "done"
            /\ ctxDone[c]
            /\ invoked[c] = 0
            => IF Admitted(c) THEN ret[c] = CtxError
               ELSE ret[c] = BreakerOpenError)

C12_Witness ==
    \E c \in Callers :
        /\ config.via = "executor"
        /\ pc[c] = "done"
        /\ ctxDone[c]
        /\ invoked[c] = 1
        /\ waited[c] = 1
        /\ config.MaxRetries >= 1
        /\ ret[c] = CtxError

\* C13: a context that completes during a backoff wait ends the wait at
\* once (whatever remains of the delay) and Execute returns the context's
\* error itself, after at least one completed invocation.
C13_CancelledWaitReturnsCtxError ==
    /\ [](\A c \in Callers :
            pc[c] = "wait" =>
                /\ invoked[c] >= 1
                /\ opResult[c] # NoError
                /\ ctxDone[c] => ENABLED WaitCancelled(c))
    /\ [][\A c \in Callers :
            pc[c] = "wait" /\ ctxDone[c] /\ pc'[c] = "done" =>
                /\ ret'[c] = [Type |-> "context",
                              Message |-> "context canceled"]
                /\ invoked'[c] = invoked[c]]_vars

C13_Witness ==
    \E c \in Callers :
        /\ pc[c] = "done"
        /\ ctxDone[c]
        /\ waited[c] = 1
        /\ invoked[c] = 1
        /\ opResult[c] = ProbeError("network")
        /\ ret[c] = CtxError
        /\ now = 0

\* C14: an operation error that is not a ProbeError ends the retry
\* sequence under every retryable set: it is returned at once, without a
\* wait.
C14_UnclassifiedStops ==
    [][\A c \in Callers :
        /\ config.via = "executor"
        /\ pc[c] = "op" /\ pc'[c] # "op"
        /\ opResult'[c] # NoError
        /\ opResult'[c].Type \notin ErrorTypes
        => /\ pc'[c] = "done"
           /\ ret'[c] = opResult'[c]
           /\ waited'[c] = waited[c]]_vars

C14_Witness ==
    \E c \in Callers :
        /\ config.via = "executor"
        /\ config.RetryableErrors = ErrorTypes
        /\ config.MaxRetries >= 1
        /\ pc[c] = "done"
        /\ ret[c] = PlainError
        /\ invoked[c] = 1
        /\ waited[c] = 0

\* C15: RetryExecutor.Execute returns nil, the unchanged result of the most
\* recent invocation, the context's error, or the rejection error.
C15_ReturnsOnlyKnownValues ==
    \A c \in Callers :
        config.via = "executor" /\ pc[c] = "done" =>
            \/ ret[c] = NoError
            \/ invoked[c] >= 1 /\ ret[c] = opResult[c]
            \/ ctxDone[c] /\ ret[c] = CtxError
            \/ admit[c] = "rejected" /\ ret[c] = BreakerOpenError

C15_Witness ==
    \E c \in Callers :
        /\ config.via = "executor"
        /\ pc[c] = "done"
        /\ invoked[c] = 2
        /\ ret[c] = ProbeError("timeout")
        /\ opResult[c] = ProbeError("timeout")

\* C16: a disabled breaker never rejects, invokes the operation once per
\* call, returns its result, and keeps its initial fields.
C16_DisabledBreakerIsTransparent ==
    config.via = "breaker" /\ ~config.Enabled =>
        /\ cb.state = "Closed"
        /\ cb.failures = 0
        /\ cb.requests = 0
        /\ cb.lastFailTime = 0
        /\ \A c \in Callers :
            /\ admit[c] # "rejected"
            /\ pc[c] \in {"op", "done"} => invoked[c] = 1
            /\ pc[c] = "done" => ret[c] = opResult[c]

C16_Witness ==
    /\ config.via = "breaker"
    /\ ~config.Enabled
    /\ started > config.FailureThreshold
    /\ now > 0
    /\ \A c \in Callers : pc[c] = "done" /\ ret[c] # NoError

\* C17: a rejected call leaves every breaker field as it was.
C17_RejectionChangesNothing ==
    [][\A c \in Callers :
        Calls(c) /\ admit'[c] = "rejected" => cb' = cb]_vars

C17_Witness ==
    /\ cb.state = "Open"
    /\ now - cb.lastFailTime = config.ResetTimeout
    /\ now > 0
    /\ \A c \in Callers : admit[c] = "rejected" /\ pc[c] = "done"

\* C18: an admitted CircuitBreaker.Execute call invokes the operation
\* once, records one result and returns what the operation returned.
C18_AdmittedCallRunsOnce ==
    /\ [](\A c \in Callers :
            config.via = "breaker" /\ Guarded =>
                /\ pc[c] = "op" => invoked[c] = 1
                /\ pc[c] = "done" /\ admit[c] # "rejected" =>
                       invoked[c] = 1 /\ ret[c] = opResult[c])
    /\ [][\A c \in Callers :
            /\ config.via = "breaker" /\ Guarded
            /\ pc[c] = "op" /\ pc'[c] = "done"
            => /\ ret'[c] = opResult'[c]
               /\ cb'.failures = IF ret'[c] = NoError
                                 THEN 0 ELSE cb.failures + 1]_vars

C18_Witness ==
    \E c \in Callers :
        /\ config.via = "breaker" /\ Guarded
        /\ pc[c] = "done"
        /\ admit[c] = "HalfOpen"
        /\ invoked[c] = 1
        /\ ret[c] = PlainError

\* C19: GetState returns the state and changes no breaker field, also when
\* the reset timeout has passed in Open; the state becomes HalfOpen only in
\* an Execute entry, and changes only where Execute checks admission or
\* records a result.
C19_GetStateReadsOnly ==
    /\ [][GetState => cb' = cb /\ seen' = cb.state]_vars
    /\ [][cb'.state = "HalfOpen" /\ cb.state # "HalfOpen"
            => \E c \in Callers : Calls(c)]_vars
    /\ [][cb'.state # cb.state
            => \E c \in Callers : Calls(c) \/ Records(c)]_vars

C19_Witness ==
    /\ seen = "Open"
    /\ cb.state = "Open"
    /\ now - cb.lastFailTime > config.ResetTimeout

\* C20: failures recorded by concurrent callers are all counted: every
\* recorded failure raises the counter by one, the circuit opens in the
\* step that brings it to FailureThreshold, and after each caller recorded
\* one failure admitted in Closed the counter is the number of callers.
C20_NoLostFailure ==
    /\ [][\A c \in Callers :
            Records(c) /\ ret'[c] # NoError =>
                /\ cb'.failures = cb.failures + 1
                /\ cb'.failures >= config.FailureThreshold
                       => cb'.state = "Open"]_vars
    /\ [](/\ Guarded
          /\ started = Cardinality(Callers)
          /\ \A c \in Callers :
                pc[c] = "done" /\ admit[c] = "Closed" /\ ret[c] # NoError
          => /\ cb.failures = Cardinality(Callers)
             /\ cb.failures >= config.FailureThreshold
                    => cb.state = "Open")

C20_Witness ==
    /\ Guarded
    /\ config.FailureThreshold = 1
    /\ started = 2
    /\ cb.failures = 2
    /\ cb.state = "Open"
    /\ \A c \in Callers :
        pc[c] = "done" /\ admit[c] = "Closed" /\ ret[c] # NoError

\* The uncapped delay of the most recent calculateDelay call is
\* DelayProd / DelayScale.
DelayScale == Pow(MultiplierUnit, delay.attempt)

DelayProd == config.InitialDelay * Pow(config.BackoffMultiplier, delay.attempt)

\* The policy of TestCalculateDelay but for the jitter flag.
TestDelayConfig ==
    /\ config.InitialDelay = 100
    /\ config.MaxDelay = 1000
    /\ config.BackoffMultiplier = 2 * MultiplierUnit

C25_Defaults ==
    /\ config.via = "executor" /\ config.retryConfig = Nil =>
        /\ config.MaxRetries = 3
        /\ config.InitialDelay = 100
        /\ config.MaxDelay = 5000
        /\ config.BackoffMultiplier = 2 * MultiplierUnit
        /\ config.Jitter
        /\ config.RetryableErrors = {"network", "timeout"}
    /\ config.via = "breaker" /\ config.cbConfig = Nil =>
        /\ config.Enabled
        /\ config.FailureThreshold = 5
        /\ config.ResetTimeout = 30000
        /\ config.HalfOpenMaxRequests = 3
    /\ cb.state = "Closed" /\ cb.failures = 0

C25_Witness ==
    /\ config.via = "executor"
    /\ config.retryConfig = Nil
    /\ config.cbConfig = Nil
    /\ delay.attempt = 5
    /\ delay.value = 3200

\* C23: an executor built with a nil breaker config has no breaker:
\* every call goes straight into a fresh retry loop, none is rejected or
\* returns the rejection error, and no state is kept between calls.
C23_NilBreakerIsPlainRetry ==
    /\ [](config.via = "executor" /\ config.cbConfig = Nil =>
            /\ cb = NewCircuitBreaker
            /\ \A c \in Callers :
                /\ admit[c] \in {"none", "unguarded"}
                /\ pc[c] = "done" => ret[c] # BreakerOpenError)
    /\ [][\A c \in Callers :
            config.via = "executor" /\ config.cbConfig = Nil /\ Calls(c) =>
                /\ pc'[c] = "loop"
                /\ attempt'[c] = 0
                /\ lastErr'[c] = NoError
                /\ invoked'[c] = 0
                /\ waited'[c] = 0]_vars

C23_Witness ==
    /\ config.via = "executor"
    /\ config.cbConfig = Nil
    /\ started = MaxCalls
    /\ \A c \in Callers :
        pc[c] = "done" /\ invoked[c] >= 1 /\ ret[c] = ProbeError("network")

\* C24: RetryExecutor.Execute terminates when every invocation of the
\* operation does: at most MaxRetries+1 invocations and MaxRetries waits,
\* a wait ending only when its delay has elapsed or the context is done,
\* and as soon as either is the case it can end.
C24_Terminates ==
    /\ [](\A c \in Callers :
            /\ invoked[c] <= config.MaxRetries + 1
            /\ waited[c] <= config.MaxRetries
            /\ pc[c] = "wait" =>
                /\ now >= wakeAt[c] => ENABLED WaitElapsed(c)
                /\ ctxDone[c] => ENABLED WaitCancelled(c))
    /\ [][\A c \in Callers :
            pc[c] = "wait" /\ pc'[c] # "wait" =>
                now >= wakeAt[c] \/ ctxDone[c]]_vars
    /\ \A c \in Callers : InFlight(c) ~> pc[c] = "done"

C24_Witness ==
    \E c \in Callers :
        /\ pc[c] = "done"
        /\ ~ctxDone[c]
        /\ config.MaxRetries = MaxRetriesBound
        /\ invoked[c] = config.MaxRetries + 1
        /\ waited[c] = config.MaxRetries
        /\ ret[c] = ProbeError("timeout")
        /\ now > MaxTime

\* C26: the wait after failed attempt k < MaxRetries lasts
\* calculateDelay(k), and the final permitted attempt is followed by no
\* wait: its retryable error is returned in the same step, also when the
\* context was cancelled while the attempt ran.
C26_WaitLastsCalculatedDelay ==
    [][\A c \in Callers :
        /\ config.via = "executor"
        /\ pc[c] = "op" /\ pc'[c] # "op"
        /\ Retryable(opResult'[c])
        => LET k == invoked[c] - 1
           IN  IF k < config.MaxRetries
               THEN /\ pc'[c] = "wait"
                    /\ waited'[c] = k + 1
                    /\ \E r \in 0..(JitterSteps - 1) :
                          wakeAt'[c] = now + calculateDelay(config, k, r)
                    /\ wakeAt'[c] - now >= config.InitialDelay
                    /\ wakeAt'[c] - now <= config.MaxDelay
               ELSE /\ pc'[c] = "done"
                    /\ ret'[c] = opResult'[c]
                    /\ waited'[c] = waited[c]]_vars

C26_Witness ==
    \E c \in Callers :
        /\ config.via = "executor"
        /\ config.MaxRetries >= 1
        /\ pc[c] = "done"
        /\ ctxDone[c]
        /\ invoked[c] = config.MaxRetries + 1
        /\ waited[c] = config.MaxRetries
        /\ ret[c] = ProbeError("network")

\* C27: the executor asks its breaker once per Execute, at the entry:
\* the admission is never revised during the call, and an attempt that is
\* due starts whatever the breaker's state has become, so the operation
\* can run while the breaker is Open.
C27_BreakerConsultedOncePerExecute ==
    /\ [][\A c \in Callers :
            /\ config.via = "executor"
            /\ pc[c] = "loop" /\ pc'[c] # "loop"
            /\ ~ctxDone[c]
            /\ attempt[c] <= config.MaxRetries
            => /\ pc'[c] = "op"
               /\ invoked'[c] = invoked[c] + 1
               /\ cb' = cb]_vars
    /\ [][\A c \in Callers :
            config.via = "executor" /\ InFlight(c) =>
                /\ admit'[c] = admit[c]
                /\ admit[c] # "rejected"]_vars
    /\ [][\A c \in Callers :
            config.via = "executor" /\ Guarded /\ Calls(c) =>
                /\ admit'[c] \in {"Closed", "HalfOpen", "rejected"}
                /\ invoked'[c] = 0]_vars

C27_Witness ==
    \E c \in Callers :
        /\ config.via = "executor"
        /\ cb.state = "Open"
        /\ now - cb.lastFailTime <= config.ResetTimeout
        /\ admit[c] = "Closed"
        /\ pc[c] = "op"
        /\ invoked[c] = 2

\* Some caller's failure is recorded in this step.
RecordsFailure == \E c \in Callers : Records(c) /\ ret'[c] # NoError

\* C28: the last-failure timestamp is the time of the most recent recorded
\* failure: every recorded failure sets it to the current time, in Closed
\* below the threshold and in Open too; no other step (success, rejection,
\* admission, passage of time) changes it; it never decreases; and an Open
\* breaker admits only after more than ResetTimeout since that timestamp.
C28_LastFailTimeIsLatestFailure ==
    /\ [][RecordsFailure => cb'.lastFailTime = now]_vars
    /\ [][~RecordsFailure => cb'.lastFailTime = cb.lastFailTime]_vars
    /\ [][cb'.lastFailTime >= cb.lastFailTime]_vars
    /\ [][\A c \in Callers :
            Calls(c) /\ cb.state = "Open" /\ admit'[c] # "rejected" =>
                now - cb.lastFailTime > config.ResetTimeout]_vars
    /\ [](cb.lastFailTime <= now)

C28_Witness ==
    /\ Guarded
    /\ cb.state = "Open"
    /\ cb.failures = config.FailureThreshold + 1
    /\ cb.lastFailTime = MaxTime
    /\ seen = "Open"
    /\ \E c \in Callers : admit[c] = "rejected" /\ pc[c] = "done"

\* C29: whatever its kind, a non-nil result of the guarded retry sequence
\* (context error, non-retryable or unclassified error, exhausted
\* retryable error) is recorded as one failure, and reopens a half-open
\* circuit.
C29_EveryErrorCountsAsFailure ==
    [][\A c \in Callers :
        /\ config.via = "executor"
        /\ Records(c)
        /\ ret'[c] # NoError
        => /\ ret'[c] \in {CtxError, PlainError} \cup
                          {ProbeError(t) : t \in ErrorTypes}
           /\ cb'.failures = cb.failures + 1
           /\ cb.state = "HalfOpen" => cb'.state = "Open"
           /\ cb.state = "Closed"
                 /\ cb'.failures >= config.FailureThreshold
                 => cb'.state = "Open"]_vars

C29_Witness ==
    \E c \in Callers :
        /\ config.via = "executor"
        /\ Guarded
        /\ pc[c] = "done"
        /\ admit[c] = "HalfOpen"
        /\ ret[c] = CtxError
        /\ cb.state = "Open"
        /\ cb.lastFailTime = now
        /\ cb.requests = 1

\* C30: whenever the state is HalfOpen the half-open request counter is
\* 0: it grows only in a step that records a result in HalfOpen, and that
\* step leaves HalfOpen.
C30_HalfOpenCounterIsZero ==
    /\ [](cb.state = "HalfOpen" => cb.requests = 0)
    /\ [][cb'.requests > cb.requests =>
            /\ \E c \in Callers : Records(c)
            /\ cb.state = "HalfOpen"
            /\ cb'.state \in {"Open", "Closed"}]_vars

C30_Witness ==
    /\ cb.state = "HalfOpen"
    /\ cb.requests = 0
    /\ \A c \in Callers : pc[c] = "op" /\ admit[c] = "HalfOpen"

\* C31 as stated: a half-open circuit is closed only by the success of a
\* call admitted as a half-open probe.
C31_OnlyProbeSuccessCloses ==
    [][\A c \in Callers :
        Records(c) /\ cb.state = "HalfOpen" /\ cb'.state = "Closed"
            => admit[c] = "HalfOpen"]_vars

\* C31 amended: a half-open circuit is closed only by a recorded success,
\* and by every success recorded while HalfOpen, whether the call was
\* admitted as a probe or earlier while the breaker was Closed.
C31_AnySuccessCloses ==
    /\ [][cb.state = "HalfOpen" /\ cb'.state = "Closed" =>
            \E c \in Callers :
                /\ Records(c)
                /\ ret'[c] = NoError
                /\ admit[c] \in {"Closed", "HalfOpen"}]_vars
    /\ [][\A c \in Callers :
            Records(c) /\ ret'[c] = NoError /\ cb.state = "HalfOpen"
                => cb'.state = "Closed" /\ cb'.failures = 0]_vars

C31_Witness ==
    \E c, p \in Callers :
        /\ cb.state = "Closed"
        /\ cb.requests = 1
        /\ pc[c] = "done" /\ admit[c] = "Closed" /\ ret[c] = NoError
        /\ pc[p] = "op" /\ admit[p] = "HalfOpen"

\* C32: the state leaves Open only in an Execute entry after the reset
\* timeout, to HalfOpen; a result recorded while Open leaves it Open (a
\* success only zeroes the failure counter); the only transitions are
\* Closed to Open, Open to HalfOpen, HalfOpen to Open, HalfOpen to Closed.
C32_OpenLeftOnlyByTimeout ==
    /\ [][cb.state = "Open" /\ cb'.state # "Open" =>
            /\ cb'.state = "HalfOpen"
            /\ now - cb.lastFailTime > config.ResetTimeout
            /\ \E c \in Callers : Calls(c) /\ admit'[c] = "HalfOpen"]_vars
    /\ [][\A c \in Callers :
            Records(c) /\ cb.state = "Open" =>
                /\ cb'.state = "Open"
                /\ ret'[c] = NoError => cb'.failures = 0]_vars
    /\ [][cb'.state # cb.state =>
            <<cb.state, cb'.state>> \in
                {<<"Closed", "Open">>, <<"Open", "HalfOpen">>,
                 <<"HalfOpen", "Open">>, <<"HalfOpen", "Closed">>}]_vars

C32_Witness ==
    \E c \in Callers :
        /\ cb.state = "Open"
        /\ cb.failures = 0
        /\ cb.lastFailTime < now
        /\ pc[c] = "done" /\ admit[c] = "Closed" /\ ret[c] = NoError

\* C33: while the state is Closed the failure counter is below
\* FailureThreshold, and the counter is never negative.
C33_ClosedBelowThreshold ==
    Guarded =>
        /\ cb.failures >= 0
        /\ cb.state = "Closed" => cb.failures < config.FailureThreshold

C33_Witness ==
    /\ Guarded
    /\ seen = "HalfOpen"
    /\ cb.state = "Closed"
    /\ cb.failures = config.FailureThreshold - 1
    /\ cb.requests = 1

\* C34: a call of Execute that returned nil made at least one invocation of
\* the operation, and its last invocation returned nil.
C34_NilOnlyAfterNilInvocation ==
    \A c \in Callers :
        pc[c] = "done" /\ ret[c] = NoError =>
            invoked[c] >= 1 /\ opResult[c] = NoError

\* C35: with sequential callers and a target that always fails, once the
\* breaker has opened it never closes again; a call is admitted only as a
\* probe, more than ResetTimeout after the last failure; the probe is the
\* only call in flight, and its failure reopens the breaker and restarts
\* the timeout, so the probes admitted since the opening are at most one
\* per ResetTimeout period; and as long as calls arrive and time advances
\* an Open breaker eventually admits a probe.
C35_OneProbePerResetTimeout ==
    /\ [][cb.state # "Closed" => cb'.state # "Closed"]_vars
    /\ [][\A c \in Callers :
            SeqExecute(c) /\ cb.state # "Closed" /\ pc'[c] = "op" =>
                /\ cb.state = "Open"
                /\ now - cb.lastFailTime > config.ResetTimeout
                /\ cb'.state = "HalfOpen"
                /\ admit'[c] = "HalfOpen"]_vars
    /\ [][\A c \in Callers :
            SeqReturn(c) /\ admit[c] = "HalfOpen" =>
                cb'.state = "Open" /\ cb'.lastFailTime = now]_vars
    /\ [](Cardinality({c \in Callers : InFlight(c)}) <= 1)
    /\ [](cb.state = "HalfOpen" <=>
            \E c \in Callers : pc[c] = "op" /\ admit[c] = "HalfOpen")
    /\ [](cb.state # "Closed" =>
            (started - config.FailureThreshold) * (config.ResetTimeout + 1)
                <= now)
    /\ (cb.state = "Open" /\ started < MaxCalls) ~> (cb.state = "HalfOpen")

C35_Witness ==
    /\ cb.state = "HalfOpen"
    /\ started >= config.FailureThreshold + 2
    /\ \E c \in Callers : pc[c] = "op" /\ admit[c] = "HalfOpen"

\* The transport errors whose text mentions a timeout or an exceeded
\* deadline, in any letter case.
TimeoutRelated(e) ==
    e.Message \in {<<"read", "tcp", "i/o", "timeout">>,
                   <<"context", "deadline", "exceeded">>,
                   <<"net/http", "Client", "Timeout", "exceeded">>,
                   <<"Deadline", "Exceeded">>}

\* The default executor, NewRetryExecutor(nil, nil).
DefaultExecutor == NewRetryExecutor(Nil, Nil)

\* C36: FetchManifest maps a transport error to kind timeout when it is
\* timeout-related and to kind network otherwise, a 4xx status to kind
\* auth, a status of 500 or more and every other status but 200 to kind
\* network, a 200 with an empty body to kind network, and succeeds, with
\* the body, only on a 200 with a non-empty body; under the default
\* retryable set the error of a 4xx is not retryable and that of a 5xx is.
C36_FetchManifestClassification ==
    out.fn = "FetchManifest" =>
        LET r == out.arg
            v == out.value
            client == r.err = Nil /\ r.status >= 400 /\ r.status <= 499
            server == r.err = Nil /\ r.status >= 500
        IN  /\ r.err # Nil =>
                v.err.Type = IF TimeoutRelated(r.err)
                             THEN "timeout" ELSE "network"
            /\ client => v.err.Type = "auth"
            /\ server => v.err.Type = "network"
            /\ (r.err = Nil /\ r.status # 200 /\ ~client) =>
                    v.err.Type = "network"
            /\ (r.err = Nil /\ r.status = 200 /\ r.body = "") =>
                    v.err.Type = "network"
            /\ v.err = NoError <=>
                    (r.err = Nil /\ r.status = 200 /\ r.body # "")
            /\ v.body = IF v.err = NoError THEN r.body ELSE ""
            /\ client => ~isRetryable(v.err, DefaultExecutor)
            /\ server => isRetryable(v.err, DefaultExecutor)

C36_Witness ==
    /\ out.fn = "FetchManifest"
    /\ out.arg.err = Nil
    /\ out.arg.status = 503
    /\ out.value.err.Type = "network"
    /\ isRetryable(out.value.err, DefaultExecutor)

\* C37: validateProbeOptions returns nil for nil options; for others it
\* returns a validation-kind ProbeError exactly when the proxy URL does
\* not parse or TimeoutSeconds is below 0 or above 300, and nil otherwise:
\* every timeout in 0..300 with an empty or parseable proxy URL passes.
C37_ValidateProbeOptions ==
    out.fn = "validateProbeOptions" =>
        LET opts == out.arg
            unparseable ==
                opts.ProxyURL \in {<<":", "//", "invalid-url">>,
                                   <<"http", ":", "//", "[", "::1">>,
                                   <<":">>}
        IN  IF opts = Nil
            THEN out.value = NoError
            ELSE /\ out.value = NoError \/ out.value.Type = "validation"
                 /\ out.value.Type = "validation" <=>
                        \/ unparseable
                        \/ opts.TimeoutSeconds < 0
                        \/ opts.TimeoutSeconds > 300
                 /\ (opts.TimeoutSeconds \in 0..300 /\ ~unparseable) =>
                        out.value = NoError

C37_Witness ==
    /\ out.fn = "validateProbeOptions"
    /\ out.arg # Nil
    /\ out.arg.TimeoutSeconds = 300
    /\ out.arg.ProxyURL = <<"http", ":", "//", "proxy", ":", "8080">>
    /\ out.value = NoError

\* C38: isRetryable decides by the first ProbeError of the unwrap chain: a
\* ProbeError is retryable exactly when its own kind is in the retryable
\* set, whatever its Cause (a non-retryable kind whose Cause is a
\* retryable ProbeError is not retryable); a wrapper that is no ProbeError
\* is retryable exactly when the ProbeError right under it is of a
\* retryable kind; an error without any ProbeError is not retryable.
C38_FirstProbeErrorDecides ==
    out.fn = "isRetryable" =>
        LET err == out.arg
            wraps == "Cause" \in DOMAIN err
            kinds == config.RetryableErrors
        IN  /\ err.Type \in ErrorTypes => (out.value <=> err.Type \in kinds)
            /\ (err.Type \notin ErrorTypes /\ ~wraps) => ~out.value
            /\ (err.Type \notin ErrorTypes /\ wraps
                    /\ err.Cause.Type \in ErrorTypes) =>
                    (out.value <=> err.Cause.Type \in kinds)
            /\ (err.Type \notin ErrorTypes /\ wraps
                    /\ err.Cause.Type \notin ErrorTypes
                    /\ "Cause" \notin DOMAIN err.Cause) => ~out.value

C38_Witness ==
    /\ out.fn = "isRetryable"
    /\ out.arg = WithCause("auth", ProbeError("network"))
    /\ config.RetryableErrors = {"network", "timeout"}
    /\ ~out.value
====
